---------------------------- MODULE Spec2Model ----------------------------
(***************************************************************************)
(* A model of HitoriSolver.cpp: the DisjointSets union-find, the Table     *)
(* (board) with its finalize/delete cascades, and the recursive solve      *)
(* driver, unrolled into an explicit call stack.                           *)
(*                                                                         *)
(* Conventions.                                                            *)
(*  - Rows, columns and union-find elements are 0-based, as in the source. *)
(*  - A C++ `unsigned` is kept as the signed integer with the same 32-bit  *)
(*    pattern (0 - 1 is -1, standing for 4294967295); ULt is the unsigned  *)
(*    order on these patterns.                                             *)
(*  - An operation that can throw returns a record with the object as the  *)
(*    call left it (the code mutates in place) and the exception, if any.  *)
(*  - Then(e, F) is F(e) with e evaluated once: the statement sequencing   *)
(*    of the source, "compute e, then go on with its value".               *)
(***************************************************************************)
EXTENDS Integers, Sequences, FiniteSets, TLC

VARIABLES
    input,      \* Spec: the matrix readTable hands to Table(initValues)
    stack,      \* Spec: the active solve calls, outermost first
    result,     \* Spec: the value or exception travelling up the call stack
    board,      \* BoardSpec: one Table driven through its public methods
    ds,         \* DSSpec: DisjointSets::parents
    links,      \* DSSpec: history, the classes of elements joined by chains of unions
    last        \* BoardSpec/DSSpec: history, the last call and its outcome

vars == <<input, stack, result, board, ds, links, last>>

----------------------------------------------------------------------------
(* Bounds of the model.                                                    *)

MaxN == 3          \* valid grids of every size 1..MaxN are explored
MaxBadN == 2       \* grids up to this size may also hold out-of-range values
MaxValue == 5      \* largest token value in such grids
MaxFairCorner == 1 \* top-left values of the grids of the fair specification
MaxDSSize == 4     \* sizes of the stand-alone DisjointSets
MaxLastRowValue == 1 \* fixed-cell values of the grids driven method by method

----------------------------------------------------------------------------
(* Exceptions.                                                             *)

NoExc == [class |-> "none", what |-> ""]
RangeError == [class |-> "range_error", what |-> "element index is out of range"]
NotRootError == [class |-> "logic_error", what |-> "at least one element is not root"]
InvalidValueException == [class |-> "InvalidValueException", what |-> "invalid value"]
MultipleStateChangeException ==
    [class |-> "MultipleStateChangeException",
     what |-> "tried to set an entry's state multiple times"]
NoSolutionExistsException(reason) ==
    [class |-> "NoSolutionExistsException", what |-> reason]

Raised(x) == x.exc.class # "none"

(* the direct base of each exception class: lines 103-125, and <stdexcept> *)
(* for the two standard classes the program throws itself                  *)
BaseClass(class) ==
    CASE class = "NoSolutionExistsException" -> "logic_error"
      [] class = "MultipleStateChangeException" -> "logic_error"
      [] class = "InvalidValueException" -> "range_error"
      [] class = "range_error" -> "runtime_error"
      [] class = "logic_error" -> "exception"
      [] class = "runtime_error" -> "exception"
      [] OTHER -> "none"

(* a handler for base matches an exception of class: the class itself or a *)
(* class derived from base                                                  *)
RECURSIVE IsA(_, _)
IsA(class, base) ==
    \/ class = base
    \/ class \notin {"exception", "none"} /\ IsA(BaseClass(class), base)

Then(e, F(_)) == CHOOSE y \in {F(v) : v \in {e}} : TRUE

(* unsigned comparison on 32-bit patterns *)
ULt(a, b) == IF (a >= 0) = (b >= 0) THEN a < b ELSE b < 0

----------------------------------------------------------------------------
(* DisjointSets.  parents is a function on 0 .. size-1.                     *)

DisjointSets(size) == [e \in 0 .. size - 1 |-> -1]

DSSize(parents) == Cardinality(DOMAIN parents)

assertElementRange(parents, e) ==
    IF e < 0 \/ e >= DSSize(parents) THEN RangeError ELSE NoExc

RECURSIVE findSet_root(_, _)
findSet_root(parents, root) ==
    IF parents[root] >= 0 THEN findSet_root(parents, parents[root]) ELSE root

(* a faulty compression that makes every element of the path a root of its *)
(* own instead of a child of root; C9 must tell it from findSet_compress   *)
RECURSIVE findSet_compress_detach(_, _, _)
findSet_compress_detach(parents, e, root) ==
    IF parents[e] >= 0
    THEN Then([parents EXCEPT ![e] = -1],
              LAMBDA p : findSet_compress_detach(p, parents[e], root))
    ELSE parents

RECURSIVE findSet_compress(_, _, _)
findSet_compress(parents, e, root) ==
    IF parents[e] >= 0
    THEN Then([parents EXCEPT ![e] = root],
              LAMBDA p : findSet_compress(p, parents[e], root))
    ELSE parents

findSet(parents, e) ==
    IF assertElementRange(parents, e) # NoExc
    THEN [parents |-> parents, root |-> -1, exc |-> RangeError]
    ELSE Then(findSet_root(parents, e),
              LAMBDA root : [parents |-> findSet_compress(parents, e, root),
                             root |-> root, exc |-> NoExc])

(* lines 48-59 *)
linkSets_byRank(parents, set1, set2, rank1, rank2) ==
    IF rank1 < rank2 THEN [parents EXCEPT ![set1] = set2]
    ELSE IF rank2 < rank1 THEN [parents EXCEPT ![set2] = set1]
    ELSE [parents EXCEPT ![set1] = set2, ![set2] = parents[set2] - 1]

(* a faulty linkSets without the root test of lines 43-45: it links what   *)
(* it is given; C10 must tell it from linkSets                              *)
linkSets_unchecked(parents, set1, set2) ==
    IF assertElementRange(parents, set1) # NoExc
       \/ assertElementRange(parents, set2) # NoExc
    THEN [parents |-> parents, exc |-> RangeError]
    ELSE IF set1 = set2
    THEN [parents |-> parents, exc |-> NoExc]
    ELSE [parents |-> [parents EXCEPT ![set1] = set2], exc |-> NoExc]

linkSets(parents, set1, set2) ==
    IF assertElementRange(parents, set1) # NoExc
       \/ assertElementRange(parents, set2) # NoExc
    THEN [parents |-> parents, exc |-> RangeError]
    ELSE IF parents[set1] >= 0 \/ parents[set2] >= 0
    THEN [parents |-> parents, exc |-> NotRootError]
    ELSE IF set1 = set2
    THEN [parents |-> parents, exc |-> NoExc]
    ELSE [parents |-> linkSets_byRank(parents, set1, set2,
                                      -parents[set1] - 1, -parents[set2] - 1),
          exc |-> NoExc]

unionSets(parents, e1, e2) ==
    Then(findSet(parents, e1), LAMBDA f1 :
        IF Raised(f1) THEN [parents |-> f1.parents, exc |-> f1.exc]
        ELSE Then(findSet(f1.parents, e2), LAMBDA f2 :
            IF Raised(f2) THEN [parents |-> f2.parents, exc |-> f2.exc]
            ELSE linkSets(f2.parents, f1.root, f2.root)))

----------------------------------------------------------------------------
(* Table.  A record: size, value[r][c], state[r][c], rowCounts[r][v],      *)
(* columnCounts[c][v], unknownCellCount, deletedTrees (the parents array). *)

Unknown == "Unknown"
Final == "Final"
Deleted == "Deleted"

Ok(t) == [t |-> t, exc |-> NoExc]
Throw(t, e) == [t |-> t, exc |-> e]

(* The matrix readTable builds is square (lines 389-400): n rows of n      *)
(* tokens.  initValues is a function row -> column -> value.                *)
MatrixSize(initValues) == Cardinality(DOMAIN initValues)

Table_valid(initValues, size) ==
    \A r \in 0 .. size - 1 : \A c \in 0 .. size - 1 :
        ~(initValues[r][c] = 0 \/ initValues[r][c] > size)

Table_fields(initValues, size) ==
    [size |-> size,
     value |-> [r \in 0 .. size - 1 |-> [c \in 0 .. size - 1 |-> initValues[r][c]]],
     state |-> [r \in 0 .. size - 1 |-> [c \in 0 .. size - 1 |-> Unknown]],
     rowCounts |-> [r \in 0 .. size - 1 |-> [v \in 0 .. size |->
         Cardinality({c \in 0 .. size - 1 : initValues[r][c] = v})]],
     columnCounts |-> [c \in 0 .. size - 1 |-> [v \in 0 .. size |->
         Cardinality({r \in 0 .. size - 1 : initValues[r][c] = v})]],
     unknownCellCount |-> size * size,
     deletedTrees |-> DisjointSets(size * size + 1)]

Table(initValues) ==
    IF Table_valid(initValues, MatrixSize(initValues))
    THEN [t |-> Table_fields(initValues, MatrixSize(initValues)), exc |-> NoExc]
    ELSE [t |-> <<>>, exc |-> InvalidValueException]

isSolved(t) == t.unknownCellCount = 0

(* a faulty propagation step that finalizes nothing; C6 must tell it from  *)
(* finalizeUniqueCells_cell                                                 *)
finalizeUniqueCells_cell_skip(t, r, c, value) == t

(* lines 186-195 for the cell (r, c) *)
finalizeUniqueCells_cell(t, r, c, value) ==
    IF t.state[r][c] = Unknown
       /\ t.rowCounts[r][value] = 1 /\ t.columnCounts[c][value] = 1
    THEN [t EXCEPT !.state[r][c] = Final,
                   !.rowCounts[r][value] = 0,
                   !.columnCounts[c][value] = 0,
                   !.unknownCellCount = @ - 1]
    ELSE t

(* a faulty propagation that stops at the first cell it finalizes; C17     *)
(* must tell it from finalizeUniqueCells_loop                               *)
RECURSIVE finalizeUniqueCells_loop_first(_, _)
finalizeUniqueCells_loop_first(t, k) ==
    IF k >= t.size * t.size THEN t
    ELSE Then(finalizeUniqueCells_cell(t, k \div t.size, k % t.size,
                                       t.value[k \div t.size][k % t.size]),
              LAMBDA t1 : IF t1 # t THEN t1
                          ELSE finalizeUniqueCells_loop_first(t1, k + 1))

(* lines 184-197, one iteration per cell in row-major order *)
RECURSIVE finalizeUniqueCells_loop(_, _)
finalizeUniqueCells_loop(t, k) ==
    IF k >= t.size * t.size THEN t
    ELSE Then(finalizeUniqueCells_cell(t, k \div t.size, k % t.size,
                                       t.value[k \div t.size][k % t.size]),
              LAMBDA t1 : finalizeUniqueCells_loop(t1, k + 1))

finalizeUniqueCells(t) == finalizeUniqueCells_loop(t, 0)

(* row + rOffs on unsigned operands, and the range test of lines 254, 274, *)
(* 302: r >= 0 is always true of an unsigned, r < size is unsigned.        *)
InGrid(t, r, c) == ULt(r, t.size) /\ ULt(c, t.size)

(* lines 258-260, 285-287, 306-308: the offset pair is rotated after every *)
(* iteration; Offsets(first) lists the pairs of the four iterations        *)
Rotate(offs) == <<-offs[2], offs[1]>>
Offsets(first) ==
    <<first, Rotate(first), Rotate(Rotate(first)), Rotate(Rotate(Rotate(first)))>>

RECURSIVE finalizeCell(_, _, _)
RECURSIVE deleteCell(_, _, _)
RECURSIVE finalizeCell_columnLoop(_, _, _, _, _)
RECURSIVE finalizeCell_rowLoop(_, _, _, _, _)
RECURSIVE deleteCell_finalizeNeighbors(_, _, _, _)
RECURSIVE deleteCell_linkDiagonals(_, _, _, _, _)

(* lines 213-224 *)
finalizeCell_columnLoop(t, row, column, value, r) ==
    IF r >= t.size THEN Ok(t)
    ELSE IF r # row /\ t.value[r][column] = value
    THEN IF t.state[r][column] = Final
         THEN Throw(t, NoSolutionExistsException(
                           "multiple finalized values found in a column"))
         ELSE IF t.state[r][column] = Unknown
         THEN Then(deleteCell(t, r, column), LAMBDA d :
                  IF Raised(d) THEN d
                  ELSE finalizeCell_columnLoop(d.t, row, column, value, r + 1))
         ELSE finalizeCell_columnLoop(t, row, column, value, r + 1)
    ELSE finalizeCell_columnLoop(t, row, column, value, r + 1)

(* lines 228-239 *)
finalizeCell_rowLoop(t, row, column, value, c) ==
    IF c >= t.size THEN Ok(t)
    ELSE IF c # column /\ t.value[row][c] = value
    THEN IF t.state[row][c] = Final
         THEN Throw(t, NoSolutionExistsException(
                           "multiple finalized values found in a row"))
         ELSE IF t.state[row][c] = Unknown
         THEN Then(deleteCell(t, row, c), LAMBDA d :
                  IF Raised(d) THEN d
                  ELSE finalizeCell_rowLoop(d.t, row, column, value, c + 1))
         ELSE finalizeCell_rowLoop(t, row, column, value, c + 1)
    ELSE finalizeCell_rowLoop(t, row, column, value, c + 1)

(* lines 212 and 227: the guards of the two scans, each read when reached; *)
(* count > 0 on an unsigned is count # 0                                    *)
finalizeCell_columnGuard(t, column, value) == t.columnCounts[column][value] # 0
finalizeCell_rowGuard(t, row, value) == t.rowCounts[row][value] # 0

(* lines 205-210 *)
finalizeCell_mark(t, row, column, value) ==
    [t EXCEPT !.state[row][column] = Final,
              !.rowCounts[row][value] = @ - 1,
              !.columnCounts[column][value] = @ - 1,
              !.unknownCellCount = @ - 1]

(* lines 212-225 *)
finalizeCell_columns(t, row, column, value) ==
    IF finalizeCell_columnGuard(t, column, value)
    THEN finalizeCell_columnLoop(t, row, column, value, 0)
    ELSE Ok(t)

(* a faulty finalizeCell without its row scan; C15 must tell it from       *)
(* finalizeCell_rows                                                        *)
finalizeCell_rows_skip(t, row, column, value) == Ok(t)

(* lines 227-240 *)
finalizeCell_rows(t, row, column, value) ==
    IF finalizeCell_rowGuard(t, row, value)
    THEN finalizeCell_rowLoop(t, row, column, value, 0)
    ELSE Ok(t)

(* a faulty finalizeCell that succeeds without touching the Table; C7 must *)
(* tell it from finalizeCell                                                *)
finalizeCell_idle(t, row, column) == Ok(t)

finalizeCell(t, row, column) ==
    IF t.state[row][column] # Unknown
    THEN Throw(t, MultipleStateChangeException)
    ELSE Then(finalizeCell_mark(t, row, column, t.value[row][column]), LAMBDA t1 :
         Then(finalizeCell_columns(t1, row, column, t.value[row][column]), LAMBDA a :
             IF Raised(a) THEN a
             ELSE finalizeCell_rows(a.t, row, column, t.value[row][column])))

(* a faulty neighbour scan that sees no Deleted neighbour; C3 must tell it *)
(* from deleteCell_deletedNeighbor                                          *)
deleteCell_deletedNeighbor_blind(t, row, column) == FALSE

(* lines 249-261: TRUE iff one of the four orthogonal neighbours is Deleted *)
deleteCell_deletedNeighbor(t, row, column) ==
    \E i \in 1 .. 4 :
        /\ InGrid(t, row + Offsets(<<0, -1>>)[i][1], column + Offsets(<<0, -1>>)[i][2])
        /\ t.state[row + Offsets(<<0, -1>>)[i][1]][column + Offsets(<<0, -1>>)[i][2]]
               = Deleted

(* line 263, and line 273 for an in-grid neighbour *)
cellSetOf(t, row, column) == row * t.size + column + 1

(* a faulty border test for which no cell is on the border; C5 must tell   *)
(* it from isBorder                                                         *)
isBorder_never(t, row, column) == FALSE

(* line 264 *)
isBorder(t, row, column) ==
    row = 0 \/ row = t.size - 1 \/ column = 0 \/ column = t.size - 1

(* a faulty join that accepts a diagonal neighbour of the cell's own set   *)
(* instead of raising "circular neighbors found"; C2 must tell it from     *)
(* deleteCell_joinDiagonal                                                  *)
deleteCell_joinDiagonal_noCycle(t, parents, row, column, r, c) ==
    Then(findSet(parents, cellSetOf(t, r, c)), LAMBDA fd :
        IF Raised(fd) THEN [parents |-> fd.parents, exc |-> fd.exc]
        ELSE Then(findSet(fd.parents, cellSetOf(t, row, column)), LAMBDA fc :
            IF Raised(fc) THEN [parents |-> fc.parents, exc |-> fc.exc]
            ELSE IF fd.root # fc.root
            THEN linkSets(fc.parents, fd.root, fc.root)
            ELSE [parents |-> fc.parents, exc |-> NoExc]))

(* lines 275-282 for the Deleted diagonal neighbour (r, c): the two roots, *)
(* then the link or the contradiction                                       *)
deleteCell_joinDiagonal(t, parents, row, column, r, c) ==
    Then(findSet(parents, cellSetOf(t, r, c)), LAMBDA fd :
        IF Raised(fd) THEN [parents |-> fd.parents, exc |-> fd.exc]
        ELSE Then(findSet(fd.parents, cellSetOf(t, row, column)), LAMBDA fc :
            IF Raised(fc) THEN [parents |-> fc.parents, exc |-> fc.exc]
            ELSE IF fd.root # fc.root
            THEN linkSets(fc.parents, fd.root, fc.root)
            ELSE [parents |-> fc.parents,
                  exc |-> NoSolutionExistsException("circular neighbors found")]))

(* lines 270-288, iteration i of 1..4; works on the parents array *)
deleteCell_linkDiagonals(t, parents, row, column, i) ==
    IF i > 4 THEN [parents |-> parents, exc |-> NoExc]
    ELSE IF InGrid(t, row + Offsets(<<-1, -1>>)[i][1],
                      column + Offsets(<<-1, -1>>)[i][2])
            /\ t.state[row + Offsets(<<-1, -1>>)[i][1]]
                      [column + Offsets(<<-1, -1>>)[i][2]] = Deleted
    THEN Then(deleteCell_joinDiagonal(t, parents, row, column,
                                      row + Offsets(<<-1, -1>>)[i][1],
                                      column + Offsets(<<-1, -1>>)[i][2]),
              LAMBDA l :
                  IF Raised(l) THEN l
                  ELSE deleteCell_linkDiagonals(t, l.parents, row, column, i + 1))
    ELSE deleteCell_linkDiagonals(t, parents, row, column, i + 1)

(* a faulty deleteCell that leaves its neighbours as they are; C14 must    *)
(* tell it from deleteCell_finalizeNeighbors                                *)
deleteCell_finalizeNeighbors_skip(t, row, column, i) == Ok(t)

(* lines 297-309, iteration i of 1..4 *)
deleteCell_finalizeNeighbors(t, row, column, i) ==
    IF i > 4 THEN Ok(t)
    ELSE IF InGrid(t, row + Offsets(<<0, 1>>)[i][1], column + Offsets(<<0, 1>>)[i][2])
            /\ t.state[row + Offsets(<<0, 1>>)[i][1]]
                      [column + Offsets(<<0, 1>>)[i][2]] = Unknown
    THEN Then(finalizeCell(t, row + Offsets(<<0, 1>>)[i][1],
                              column + Offsets(<<0, 1>>)[i][2]),
              LAMBDA f :
                  IF Raised(f) THEN f
                  ELSE deleteCell_finalizeNeighbors(f.t, row, column, i + 1))
    ELSE deleteCell_finalizeNeighbors(t, row, column, i + 1)

(* a faulty marking that leaves rowCounts as it is; C12 must tell it from  *)
(* deleteCell_mark                                                          *)
deleteCell_mark_uncounted(t, parents, row, column, value) ==
    [t EXCEPT !.deletedTrees = parents,
              !.state[row][column] = Deleted,
              !.columnCounts[column][value] = @ - 1,
              !.unknownCellCount = @ - 1]

(* lines 290-295 *)
deleteCell_mark(t, parents, row, column, value) ==
    [t EXCEPT !.deletedTrees = parents,
              !.state[row][column] = Deleted,
              !.rowCounts[row][value] = @ - 1,
              !.columnCounts[column][value] = @ - 1,
              !.unknownCellCount = @ - 1]

(* a faulty deleteCell that never joins a cell to the border element; C13  *)
(* must tell it from deleteCell_border                                      *)
deleteCell_border_skip(t, row, column) ==
    [parents |-> t.deletedTrees, exc |-> NoExc]

(* lines 263-266 *)
deleteCell_border(t, row, column) ==
    IF isBorder(t, row, column)
    THEN unionSets(t.deletedTrees, 0, cellSetOf(t, row, column))
    ELSE [parents |-> t.deletedTrees, exc |-> NoExc]

(* a faulty deleteCell without the state test of lines 245-247; C18 must   *)
(* tell it from deleteCell                                                  *)
deleteCell_unguarded(t, row, column) ==
    Ok(deleteCell_mark(t, t.deletedTrees, row, column, t.value[row][column]))

deleteCell(t, row, column) ==
    IF t.state[row][column] # Unknown
    THEN Throw(t, MultipleStateChangeException)
    ELSE IF deleteCell_deletedNeighbor(t, row, column)
    THEN Throw(t, NoSolutionExistsException("deleted neighbor found"))
    ELSE Then(deleteCell_border(t, row, column), LAMBDA u :
        IF Raised(u) THEN Throw([t EXCEPT !.deletedTrees = u.parents], u.exc)
        ELSE Then(deleteCell_linkDiagonals(t, u.parents, row, column, 1), LAMBDA l :
            IF Raised(l) THEN Throw([t EXCEPT !.deletedTrees = l.parents], l.exc)
            ELSE Then(deleteCell_mark(t, l.parents, row, column,
                                      t.value[row][column]),
                      LAMBDA t1 : deleteCell_finalizeNeighbors(t1, row, column, 1))))

(* line 322, on unsigned operands *)
actCountOf(t, r, c, v) == t.rowCounts[r][v] + t.columnCounts[c][v] - 1

(* lines 320-328 for one (r, c, v); acc is <<rMax, cMax, maxCount>> *)
getFinalizeCandidatePos_step(t, r, c, v, acc) ==
    IF t.state[r][c] = Unknown /\ ULt(acc[3], actCountOf(t, r, c, v))
    THEN <<r, c, actCountOf(t, r, c, v)>>
    ELSE acc

(* lines 317-331, one iteration per (r, c, v) *)
RECURSIVE getFinalizeCandidatePos_loop(_, _, _)
getFinalizeCandidatePos_loop(t, k, acc) ==
    IF k >= t.size * t.size * t.size THEN acc
    ELSE Then(getFinalizeCandidatePos_step(
                  t, k \div (t.size * t.size), (k \div t.size) % t.size,
                  (k % t.size) + 1, acc),
              LAMBDA acc1 : getFinalizeCandidatePos_loop(t, k + 1, acc1))

(* a faulty selection that always returns the top-left cell; C20 must tell *)
(* it from getFinalizeCandidatePos                                          *)
getFinalizeCandidatePos_origin(t) == <<0, 0>>

getFinalizeCandidatePos(t) ==
    Then(getFinalizeCandidatePos_loop(t, 0, <<0, 0, 0>>),
         LAMBDA acc : <<acc[1], acc[2]>>)

----------------------------------------------------------------------------
(* solve (lines 405-421), one stack frame per active call.  A frame holds  *)
(* the call's own Table t (the by-value parameter), its position pc, the   *)
(* branch cell pos, and history: unknownCellCount on entry, the Table as   *)
(* finalizeUniqueCells left it, and the exception the handler caught.      *)

NoPos == <<0, 0>>

Frame(t) == [t |-> t, pc |-> "enter", pos |-> NoPos,
             startUnknown |-> t.unknownCellCount,
             propagated |-> t, caught |-> NoExc]

NoResult == [kind |-> "none", t |-> <<>>, exc |-> NoExc]
Returned(t) == [kind |-> "board", t |-> t, exc |-> NoExc]
Thrown(e) == [kind |-> "exception", t |-> <<>>, exc |-> e]

(* a faulty handler clause that catches nothing; C4 must tell it from      *)
(* solve_catches                                                            *)
solve_catches_nothing(e) == FALSE

(* a faulty handler clause written for std::logic_error; C8 must tell it   *)
(* from solve_catches                                                       *)
solve_catches_logic_error(e) == IsA(e.class, "logic_error")

(* line 417: catch (Table::NoSolutionExistsException e) *)
solve_catches(e) == IsA(e.class, "NoSolutionExistsException")

Top == stack[Len(stack)]
Pop == SubSeq(stack, 1, Len(stack) - 1)
SetTop(f) == [stack EXCEPT ![Len(stack)] = f]

Idx(n) == 0 .. n - 1
ValidGrids(n) == [Idx(n) -> [Idx(n) -> 1 .. n]]
TokenGrids(n) == [Idx(n) -> [Idx(n) -> 0 .. MaxValue]]
HasBadValue(g) ==
    \E r \in DOMAIN g : \E c \in DOMAIN g[r] :
        g[r][c] = 0 \/ g[r][c] > MatrixSize(g)

Idle == board = <<>> /\ ds = <<>> /\ links = {} /\ last = <<>>

Init ==
    /\ \/ \E n \in 1 .. MaxN : input \in ValidGrids(n)
       \/ \E n \in 1 .. MaxBadN :
              input \in {g \in TokenGrids(n) : HasBadValue(g)}
    /\ stack = <<>>
    /\ result = NoResult
    /\ Idle

(* main, lines 436-437: Table t = readTable(in); solve(t) *)
Construct ==
    /\ stack = <<>> /\ result.kind = "none"
    /\ \E made \in {Table(input)} :
           IF Raised(made)
           THEN stack' = stack /\ result' = Thrown(made.exc)
           ELSE stack' = <<Frame(made.t)>> /\ result' = result
    /\ UNCHANGED <<input, board, ds, links, last>>

(* lines 406-411 *)
SolveEnter ==
    /\ stack # <<>> /\ Top.pc = "enter"
    /\ \E t \in {finalizeUniqueCells(Top.t)} :
           IF isSolved(t)
           THEN stack' = Pop /\ result' = Returned(t)
           ELSE /\ stack' = SetTop([Top EXCEPT !.t = t, !.propagated = t,
                                               !.pc = "try",
                                               !.pos = getFinalizeCandidatePos(t)])
                /\ result' = result
    /\ UNCHANGED <<input, board, ds, links, last>>

(* a faulty first branch that calls finalizeCell on the call's own Table   *)
(* instead of a copy; C16 must tell it from SolveTry                        *)
SolveTry_shared ==
    /\ stack # <<>> /\ Top.pc = "try"
    /\ \E a \in {finalizeCell(Top.t, Top.pos[1], Top.pos[2])} :
           IF ~Raised(a)
           THEN /\ stack' = Append(SetTop([Top EXCEPT !.t = a.t, !.pc = "callA"]),
                                   Frame(a.t))
                /\ result' = result
           ELSE IF solve_catches(a.exc)
           THEN /\ stack' = SetTop([Top EXCEPT !.t = a.t, !.pc = "catch",
                                               !.caught = a.exc])
                /\ result' = result
           ELSE stack' = Pop /\ result' = Thrown(a.exc)
    /\ UNCHANGED <<input, board, ds, links, last>>

(* lines 412-417: the copy, finalizeCell on it, the nested call *)
SolveTry ==
    /\ stack # <<>> /\ Top.pc = "try"
    /\ \E a \in {finalizeCell(Top.t, Top.pos[1], Top.pos[2])} :
           IF ~Raised(a)
           THEN /\ stack' = Append(SetTop([Top EXCEPT !.pc = "callA"]), Frame(a.t))
                /\ result' = result
           ELSE IF solve_catches(a.exc)
           THEN /\ stack' = SetTop([Top EXCEPT !.pc = "catch", !.caught = a.exc])
                /\ result' = result
           ELSE stack' = Pop /\ result' = Thrown(a.exc)
    /\ UNCHANGED <<input, board, ds, links, last>>

(* lines 418-419: the handler *)
SolveCatch ==
    /\ stack # <<>> /\ Top.pc = "catch"
    /\ \E b \in {deleteCell(Top.t, Top.pos[1], Top.pos[2])} :
           IF ~Raised(b)
           THEN /\ stack' = Append(SetTop([Top EXCEPT !.t = b.t, !.pc = "callB"]),
                                   Frame(b.t))
                /\ result' = result
           ELSE stack' = Pop /\ result' = Thrown(b.exc)
    /\ UNCHANGED <<input, board, ds, links, last>>

(* lines 415, 419: return solve(...) hands the nested call's board on *)
SolveReturn ==
    /\ stack # <<>> /\ Top.pc \in {"callA", "callB"} /\ result.kind = "board"
    /\ stack' = Pop
    /\ UNCHANGED <<input, result, board, ds, links, last>>

(* an exception leaves the nested call: the try block of line 412 catches  *)
(* it if it is of the class of line 417, anything else leaves this call too *)
SolveUnwind ==
    /\ stack # <<>> /\ Top.pc \in {"callA", "callB"} /\ result.kind = "exception"
    /\ IF Top.pc = "callA" /\ solve_catches(result.exc)
       THEN /\ stack' = SetTop([Top EXCEPT !.pc = "catch", !.caught = result.exc])
            /\ result' = NoResult
       ELSE stack' = Pop /\ result' = result
    /\ UNCHANGED <<input, board, ds, links, last>>

Next ==
    \/ Construct
    \/ SolveEnter
    \/ SolveTry
    \/ SolveCatch
    \/ SolveReturn
    \/ SolveUnwind

Spec == Init /\ [][Next]_vars

(* The same program on the valid grids whose top-left value is at most     *)
(* MaxFairCorner, with the fairness of a sequential program: a call that   *)
(* can take its next step takes it.                                         *)
FairInit ==
    /\ \E n \in 1 .. MaxN :
           input \in {g \in ValidGrids(n) : g[0][0] <= MaxFairCorner}
    /\ stack = <<>>
    /\ result = NoResult
    /\ Idle

FairSpec == FairInit /\ [][Next]_vars /\ WF_vars(Next)

Finished == stack = <<>> /\ result.kind # "none"
SolveReturned == Finished /\ result.kind = "board"
SolveRaised == Finished /\ result.kind = "exception"

----------------------------------------------------------------------------
(* Vocabulary of the properties.                                           *)

Cells(n) == (0 .. n - 1) \X (0 .. n - 1)

Adjacent(p, q) ==
    \/ p[1] = q[1] /\ (p[2] = q[2] + 1 \/ q[2] = p[2] + 1)
    \/ p[2] = q[2] /\ (p[1] = q[1] + 1 \/ q[1] = p[1] + 1)

SameLine(p, q) == p # q /\ (p[1] = q[1] \/ p[2] = q[2])

(* the cells of W reachable from seen by orthogonal steps inside W *)
RECURSIVE Flood(_, _)
Flood(W, seen) ==
    IF \E w \in W \ seen : \E x \in seen : Adjacent(w, x)
    THEN Flood(W, seen \cup {w \in W \ seen : \E x \in seen : Adjacent(w, x)})
    ELSE seen

EdgeConnected(W) == W = {} \/ Flood(W, {CHOOSE w \in W : TRUE}) = W

CellsIn(t, st) == {p \in Cells(t.size) : t.state[p[1]][p[2]] = st}

NoDuplicateFinal(t) ==
    \A p \in CellsIn(t, Final) : \A q \in CellsIn(t, Final) :
        SameLine(p, q) => t.value[p[1]][p[2]] # t.value[q[1]][q[2]]

NoAdjacentDeleted(t) ==
    \A p \in CellsIn(t, Deleted) : \A q \in CellsIn(t, Deleted) : ~Adjacent(p, q)

NonDeletedConnected(t) == EdgeConnected(Cells(t.size) \ CellsIn(t, Deleted))

NoUnknown(t) == CellsIn(t, Unknown) = {}

(* D is a shading of the matrix g that obeys the three Hitori rules *)
ValidShading(g, D) ==
    /\ \A p \in D : \A q \in D : ~Adjacent(p, q)
    /\ \A p \in Cells(MatrixSize(g)) \ D : \A q \in Cells(MatrixSize(g)) \ D :
           SameLine(p, q) => g[p[1]][p[2]] # g[q[1]][q[2]]
    /\ EdgeConnected(Cells(MatrixSize(g)) \ D)

HasValidShading(g) == \E D \in SUBSET Cells(MatrixSize(g)) : ValidShading(g, D)

ValidInput(g) == ~HasBadValue(g)

Grid1(v) == [r \in {0} |-> [c \in {0} |-> v]]
AllOnes2 == [r \in {0, 1} |-> [c \in {0, 1} |-> 1]]

----------------------------------------------------------------------------
(* Properties of solve, checked under Spec (C7 under FairSpec).            *)

(* C1: every board solve returns has no two Final cells of equal value in  *)
(* one row or one column.                                                   *)
C1_NoDuplicateFinal == SolveReturned => NoDuplicateFinal(result.t)

(* C2: on every board solve returns, the non-Deleted cells form a single   *)
(* orthogonally connected component.                                        *)
C2_Connected == SolveReturned => NonDeletedConnected(result.t)

(* solve returned a 3x3 board with at least two Deleted cells *)
C2_Witness ==
    /\ SolveReturned /\ result.t.size = 3
    /\ Cardinality(CellsIn(result.t, Deleted)) >= 2

(* C4: when the input admits a valid Hitori shading, solve does not end in *)
(* a NoSolutionExists contradiction (the fallback branch finds a solution  *)
(* after a dead first branch), and a returned board has no Unknown cell.   *)
C4_SolvableIsSolved ==
    /\ SolveRaised /\ ValidInput(input) => ~HasValidShading(input)
    /\ SolveReturned => NoUnknown(result.t)

(* a fallback branch of a solvable input handed back a solved board *)
C4_Witness ==
    /\ result.kind = "board" /\ NoUnknown(result.t)
    /\ \E i \in 1 .. Len(stack) : stack[i].pc = "callB"
    /\ HasValidShading(input)

(* C5: on the 2x2 grid of ones solve never returns a board; the run ends   *)
(* with a NoSolutionExists exception leaving solve.                         *)
C5_AllOnesContradiction ==
    input = AllOnes2 =>
        /\ result.kind # "board"
        /\ Finished => result.exc.class = "NoSolutionExistsException"

(* the run on the 2x2 grid of ones ended with a NoSolutionExists *)
C5_Witness ==
    input = AllOnes2 /\ SolveRaised
    /\ result.exc.class = "NoSolutionExistsException"

(* C6 as stated: the 1x1 grid holding 5 is accepted and solves at once to  *)
(* one Final cell of value 5 and no Deleted cell.                           *)
C6_Original ==
    input = Grid1(5) /\ Finished =>
        /\ result.kind = "board"
        /\ result.t.state[0][0] = Final /\ result.t.value[0][0] = 5

(* C6 amended: the 1x1 grid holding 1 is accepted and solved by the first  *)
(* finalizeUniqueCells, without branching: one Final cell of value 1, no   *)
(* Deleted cell; the 1x1 grid holding 5 is rejected by the constructor     *)
(* with InvalidValueException and never reaches solve.                      *)
C6_OneByOne ==
    /\ input = Grid1(1) =>
          /\ Len(stack) <= 1
          /\ stack # <<>> => Top.pc = "enter"
          /\ result.kind # "exception"
          /\ Finished => /\ result.t.state[0][0] = Final
                         /\ result.t.value[0][0] = 1
                         /\ CellsIn(result.t, Deleted) = {}
    /\ input = Grid1(5) =>
          /\ stack = <<>>
          /\ result.kind # "board"
          /\ Finished => result.exc = InvalidValueException

(* solve returned on the 1x1 grid holding 1 *)
C6_Witness == input = Grid1(1) /\ SolveReturned

(* every nested call starts with fewer Unknown cells than its caller did *)
C7_StartsDecrease ==
    \A i \in 1 .. Len(stack) - 1 :
        stack[i + 1].startUnknown < stack[i].startUnknown

(* the depth is at most the Unknown cells the outermost call started with *)
C7_DepthBounded == stack # <<>> => Len(stack) <= stack[1].startUnknown

(* C7: solve terminates (it returns a board or raises); every nested call  *)
(* starts with strictly fewer Unknown cells than its caller started with;  *)
(* the depth of the recursion never exceeds the number of Unknown cells    *)
(* the outermost call started with.                                         *)
C7_Terminates == [](C7_StartsDecrease /\ C7_DepthBounded) /\ <>Finished

(* three calls of solve are active, each started below its caller *)
C7_Witness == Len(stack) >= 3 /\ C7_StartsDecrease

(* what finalizeCell on the copy does for the call on top of the stack *)
C8_TryOutcome == finalizeCell(Top.t, Top.pos[1], Top.pos[2])

(* a call is in its handler only after catching a NoSolutionExists *)
C8_HandlerOnlyForContradiction ==
    \A i \in 1 .. Len(stack) :
        stack[i].pc \in {"catch", "callB"} =>
            stack[i].caught.class = "NoSolutionExistsException"

(* a NoSolutionExists from the first branch puts the call in its handler, *)
(* and the handler calls deleteCell on the candidate                      *)
C8_CaughtStep ==
    /\ (stack # <<>> /\ Top.pc = "try" /\ Raised(C8_TryOutcome)
        /\ C8_TryOutcome.exc.class = "NoSolutionExistsException")
       => (Len(stack') = Len(stack) /\ stack'[Len(stack)].pc = "catch")
    /\ (stack # <<>> /\ Top.pc = "callA" /\ result.kind = "exception"
        /\ result.exc.class = "NoSolutionExistsException")
       => (Len(stack') = Len(stack) /\ stack'[Len(stack)].pc = "catch")
    /\ (stack # <<>> /\ Top.pc = "catch")
       => \/ /\ ~Raised(deleteCell(Top.t, Top.pos[1], Top.pos[2]))
             /\ Len(stack') = Len(stack) + 1
             /\ stack'[Len(stack')].t = deleteCell(Top.t, Top.pos[1], Top.pos[2]).t
          \/ /\ Raised(deleteCell(Top.t, Top.pos[1], Top.pos[2]))
             /\ stack' = Pop
             /\ result'.exc = deleteCell(Top.t, Top.pos[1], Top.pos[2]).exc

(* the contract violations the Table and its DisjointSets can raise *)
ContractViolations == {MultipleStateChangeException, RangeError, NotRootError}

(* the handler clause of solve matches none of them *)
C8_ContractViolationsPass == \A e \in ContractViolations : ~solve_catches(e)

(* an exception that reaches a call outside its try block, or one of       *)
(* another class, leaves the call unchanged and starts no fallback          *)
C8_PassedStep ==
    (stack # <<>> /\ result.kind = "exception"
     /\ (Top.pc = "callB" \/ result.exc.class # "NoSolutionExistsException"))
    => (stack' = Pop /\ result' = result)

(* C8: a NoSolutionExists exception raised by the first branch (by         *)
(* finalizeCell on the copy or by the nested call) is caught and answered  *)
(* with deleteCell on the candidate; the handler runs for no other class;  *)
(* an exception of any other class, once raised, is handed from frame to   *)
(* frame unchanged until it leaves the outermost call; the handler clause  *)
(* matches no contract violation (MultipleStateChange, the out-of-range    *)
(* and not-a-root errors of the DisjointSets).                              *)
C8_CatchesExactly ==
    /\ [](C8_HandlerOnlyForContradiction /\ C8_ContractViolationsPass)
    /\ [][C8_CaughtStep /\ C8_PassedStep]_vars

(* a call caught a NoSolutionExists and its deleteCell deleted the cell *)
C8_Witness ==
    \E i \in 1 .. Len(stack) :
        /\ stack[i].pc = "callB"
        /\ stack[i].caught.class = "NoSolutionExistsException"
        /\ stack[i].t.state[stack[i].pos[1]][stack[i].pos[2]] = Deleted

(* C16: while the first branch of a call runs, and when it has ended in a  *)
(* contradiction, the call's own Table is the one finalizeUniqueCells left *)
(* (cell states, counts, unknownCellCount, deletedTrees): the fallback     *)
(* deleteCell is called on that Table.                                      *)
C16_BranchIsolation ==
    \A i \in 1 .. Len(stack) :
        stack[i].pc \in {"try", "callA", "catch"} =>
            stack[i].t = stack[i].propagated

(* a call below the outermost one is in its handler after its first branch *)
(* Deleted and finalized cells on the copy                                  *)
C16_Witness ==
    \E i \in 2 .. Len(stack) :
        /\ stack[i].pc = "catch"
        /\ CellsIn(stack[i].t, Unknown) # {}
        /\ stack[i].caught.class = "NoSolutionExistsException"

(* C20: on a valid grid no contract violation is raised during solve: the  *)
(* only exception that ends a run is NoSolutionExists (no                   *)
(* MultipleStateChange from a cascaded call or from the branch cell, no    *)
(* std::range_error from findSet or unionSets, no std::logic_error from    *)
(* linkSets), and the cell getFinalizeCandidatePos returns on an unsolved  *)
(* board is an Unknown cell of the grid.                                    *)
C20_NoContractViolation ==
    /\ (result.kind = "exception" /\ ValidInput(input))
           => result.exc.class = "NoSolutionExistsException"
    /\ \A i \in 1 .. Len(stack) :
           stack[i].pc \in {"try", "catch"} =>
               /\ InGrid(stack[i].t, stack[i].pos[1], stack[i].pos[2])
               /\ stack[i].t.state[stack[i].pos[1]][stack[i].pos[2]] = Unknown

(* a run on a 3x3 grid ended with a NoSolutionExists after both branches *)
C20_Witness ==
    /\ SolveRaised /\ ValidInput(input) /\ MatrixSize(input) = 3
    /\ result.exc.class = "NoSolutionExistsException"

----------------------------------------------------------------------------
(* DSSpec: one DisjointSets object of a fixed size, driven through its     *)
(* three public methods with every index from -1 to size.                  *)

DSCall(op, exc) == [op |-> op, exc |-> exc]

(* links after a successful union of a and b: their classes are merged *)
Joined(ls, a, b) ==
    {c \in ls : a \notin c /\ b \notin c}
        \cup {UNION {c \in ls : a \in c \/ b \in c}}

DSInit ==
    /\ \E size \in 1 .. MaxDSSize :
           /\ ds = DisjointSets(size)
           /\ links = {{e} : e \in 0 .. size - 1}
    /\ last = DSCall("DisjointSets", NoExc)
    /\ input = <<>> /\ stack = <<>> /\ result = NoResult /\ board = <<>>

DSIndices == -1 .. DSSize(ds)

DSFindSet ==
    /\ \E e \in DSIndices : \E f \in {findSet(ds, e)} :
           /\ ds' = f.parents
           /\ last' = DSCall("findSet", f.exc)
    /\ UNCHANGED <<links, input, stack, result, board>>

DSUnionSets ==
    /\ \E e1 \in DSIndices : \E e2 \in DSIndices : \E u \in {unionSets(ds, e1, e2)} :
           /\ ds' = u.parents
           /\ links' = IF Raised(u) THEN links ELSE Joined(links, e1, e2)
           /\ last' = DSCall("unionSets", u.exc)
    /\ UNCHANGED <<input, stack, result, board>>

DSLinkSets ==
    /\ \E set1 \in DSIndices : \E set2 \in DSIndices :
       \E l \in {linkSets(ds, set1, set2)} :
           /\ ds' = l.parents
           /\ links' = IF Raised(l) THEN links ELSE Joined(links, set1, set2)
           /\ last' = DSCall("linkSets", l.exc)
    /\ UNCHANGED <<input, stack, result, board>>

DSNext ==
    \/ DSFindSet
    \/ DSUnionSets
    \/ DSLinkSets

DSSpec == DSInit /\ [][DSNext]_vars

(* a chain of the unions performed so far joins a and b *)
Chained(a, b) == \E c \in links : a \in c /\ b \in c

RootOf(parents, e) == findSet(parents, e).root

(* the partition of the elements into sets that parents represents *)
Partition(parents) ==
    {{b \in DOMAIN parents : RootOf(parents, b) = RootOf(parents, a)} :
        a \in DOMAIN parents}

(* same findSet result iff joined by a chain of unions *)
C9_SameSetIffChained ==
    \A a \in DOMAIN ds : \A b \in DOMAIN ds :
        (findSet(findSet(ds, a).parents, b).root = findSet(ds, a).root)
            <=> Chained(a, b)

(* findSet of a returned root, a repeated findSet, and the partition after *)
(* the path compression                                                    *)
C9_FindSetIdempotent ==
    \A a \in DOMAIN ds :
        /\ findSet(findSet(ds, a).parents, findSet(ds, a).root).root
               = findSet(ds, a).root
        /\ findSet(findSet(ds, a).parents, a).root = findSet(ds, a).root
        /\ Partition(findSet(ds, a).parents) = Partition(ds)

(* C9: two elements have the same findSet result iff a chain of the unions *)
(* performed so far joins them; findSet of a root returned by findSet is   *)
(* that root, a repeated findSet returns the same root, and the path       *)
(* compression of a findSet leaves the partition as it was.                *)
C9_UnionFind == C9_SameSetIffChained /\ C9_FindSetIdempotent

(* unions built a tree of height 2 and a findSet then went through it *)
C9_Witness ==
    /\ last.op = "findSet" /\ ~Raised(last)
    /\ \E c \in links : Cardinality(c) >= 4
    /\ \E a \in DOMAIN ds : ds[a] >= 0 /\ ds[ds[a]] < -2

OutOfRange(e) == e < 0 \/ e >= DSSize(ds)

(* the calls that must fail, and the error each fails with *)
C10_Failures ==
    /\ \A e \in DSIndices :
           OutOfRange(e) => findSet(ds, e).exc = RangeError
    /\ \A e1 \in DSIndices : \A e2 \in DSIndices :
           /\ (OutOfRange(e1) \/ OutOfRange(e2))
                  => /\ unionSets(ds, e1, e2).exc = RangeError
                     /\ linkSets(ds, e1, e2).exc = RangeError
           /\ (~OutOfRange(e1) /\ ~OutOfRange(e2) /\ (ds[e1] >= 0 \/ ds[e2] >= 0))
                  => linkSets(ds, e1, e2).exc = NotRootError

(* a call that failed left the partition as it was *)
C10_FailedStep == Raised(last') => Partition(ds') = Partition(ds)

(* C10: linkSets on valid indices of which one is not a root fails with    *)
(* the logic error; findSet, unionSets and linkSets with an index outside  *)
(* [0, size) fail with the range error; a failed call leaves the partition *)
(* as it was.                                                               *)
C10_FailuresKeepPartition == []C10_Failures /\ [][C10_FailedStep]_vars

(* a linkSets call failed on a non-root after sets had been joined *)
C10_Witness ==
    /\ last.op = "linkSets" /\ last.exc = NotRootError
    /\ \E a \in DOMAIN ds : ds[a] >= 0 /\ ds[ds[a]] >= 0

----------------------------------------------------------------------------
(* BoardSpec: one Table, built from a valid grid in which the cells of the *)
(* last row, or else the cells (r, c) with r + c even, hold values up to   *)
(* MaxLastRowValue, driven through finalizeUniqueCells, finalizeCell and   *)
(* deleteCell on every cell in any order.  A call that throws leaves the   *)
(* Table as the exception found it, and the Table is not used again: solve *)
(* drops the copy whose call threw (lines 411-420).  last.clean: no call   *)
(* has thrown yet.                                                         *)

BoardCall(op, exc, clean) == [op |-> op, exc |-> exc, clean |-> clean]

BoardGrids(n) ==
    {g \in ValidGrids(n) :
        \/ \A c \in Idx(n) : g[n - 1][c] <= MaxLastRowValue
        \/ \A r \in Idx(n) : \A c \in Idx(n) :
               (r + c) % 2 = 0 => g[r][c] <= MaxLastRowValue}

BoardInit ==
    /\ \E n \in 1 .. MaxN : \E g \in BoardGrids(n) : board = Table(g).t
    /\ last = BoardCall("Table", NoExc, TRUE)
    /\ input = <<>> /\ stack = <<>> /\ result = NoResult
    /\ ds = <<>> /\ links = {}

BoardFinalizeUniqueCells ==
    /\ last.clean
    /\ board' = finalizeUniqueCells(board)
    /\ last' = BoardCall("finalizeUniqueCells", NoExc, last.clean)
    /\ UNCHANGED <<input, stack, result, ds, links>>

BoardFinalizeCell ==
    /\ last.clean
    /\ \E row \in Idx(board.size) : \E column \in Idx(board.size) :
       \E f \in {finalizeCell(board, row, column)} :
           /\ board' = f.t
           /\ last' = BoardCall("finalizeCell", f.exc, last.clean /\ ~Raised(f))
    /\ UNCHANGED <<input, stack, result, ds, links>>

BoardDeleteCell ==
    /\ last.clean
    /\ \E row \in Idx(board.size) : \E column \in Idx(board.size) :
       \E d \in {deleteCell(board, row, column)} :
           /\ board' = d.t
           /\ last' = BoardCall("deleteCell", d.exc, last.clean /\ ~Raised(d))
    /\ UNCHANGED <<input, stack, result, ds, links>>

BoardNext ==
    \/ BoardFinalizeUniqueCells
    \/ BoardFinalizeCell
    \/ BoardDeleteCell

BoardSpec == BoardInit /\ [][BoardNext]_vars

(* C3: on a board reached through successful finalizeUniqueCells,          *)
(* finalizeCell and deleteCell calls no two Deleted cells are orthogonal   *)
(* neighbours.                                                              *)
C3_NoAdjacentDeleted == last.clean => NoAdjacentDeleted(board)

(* two successful deleteCell calls left two Deleted cells on a 3x3 board *)
C3_Witness ==
    /\ last.clean /\ last.op = "deleteCell" /\ board.size = 3
    /\ Cardinality(CellsIn(board, Deleted)) >= 2

----------------------------------------------------------------------------
(* Properties of the Table's methods, checked under BoardSpec.             *)

(* C11: a finalizeCell call that completes leaves no two Final cells of    *)
(* equal value in one row or one column, also when the second of them was  *)
(* finalized by the cascade the call started: such a cascade must end in a *)
(* NoSolutionExists contradiction.                                          *)
C11_FinalizeCellNoDuplicate ==
    (last.clean /\ last.op = "finalizeCell") => NoDuplicateFinal(board)

(* the Unknown cells of value v in row r, in column c *)
UnknownInRow(t, r, v) ==
    {c \in Idx(t.size) : t.state[r][c] = Unknown /\ t.value[r][c] = v}
UnknownInColumn(t, c, v) ==
    {r \in Idx(t.size) : t.state[r][c] = Unknown /\ t.value[r][c] = v}

CountsMatch(t) ==
    /\ \A r \in Idx(t.size) : \A v \in 1 .. t.size :
           t.rowCounts[r][v] = Cardinality(UnknownInRow(t, r, v))
    /\ \A c \in Idx(t.size) : \A v \in 1 .. t.size :
           t.columnCounts[c][v] = Cardinality(UnknownInColumn(t, c, v))
    /\ t.unknownCellCount = Cardinality(CellsIn(t, Unknown))

(* C12: after construction and after every completed finalizeUniqueCells,  *)
(* finalizeCell or deleteCell call, rowCounts[r][v] and columnCounts[c][v] *)
(* are the numbers of Unknown cells of value v in row r and in column c,   *)
(* unknownCellCount is the number of Unknown cells, and isSolved holds iff *)
(* no cell is Unknown.                                                      *)
C12_CountsMatch ==
    last.clean => /\ CountsMatch(board)
                  /\ isSolved(board) <=> NoUnknown(board)

(* a deleteCell call with its cascade completed on a 3x3 board and left    *)
(* Unknown, Final and Deleted cells                                         *)
C12_Witness ==
    /\ last.clean /\ last.op = "deleteCell" /\ board.size = 3
    /\ CellsIn(board, Unknown) # {} /\ CellsIn(board, Final) # {}
    /\ CellsIn(board, Deleted) # {}

DiagonalAdjacent(p, q) ==
    (p[1] - q[1]) \in {-1, 1} /\ (p[2] - q[2]) \in {-1, 1}

OnRing(t, p) ==
    p[1] = 0 \/ p[1] = t.size - 1 \/ p[2] = 0 \/ p[2] = t.size - 1

(* one link of a chain of Deleted cells *)
DeletedLinked(t, p, q) ==
    DiagonalAdjacent(p, q) \/ (OnRing(t, p) /\ OnRing(t, q))

(* the Deleted cells a chain joins to the cells of seen *)
RECURSIVE DeletedChain(_, _)
DeletedChain(t, seen) ==
    IF \E q \in CellsIn(t, Deleted) \ seen : \E p \in seen : DeletedLinked(t, p, q)
    THEN DeletedChain(t, seen \cup {q \in CellsIn(t, Deleted) \ seen :
                                        \E p \in seen : DeletedLinked(t, p, q)})
    ELSE seen

ElementOf(t, p) == p[1] * t.size + p[2] + 1

C14_DeletedNeighboursFinal ==
    last.clean =>
        \A p \in CellsIn(board, Deleted) : \A q \in Cells(board.size) :
            Adjacent(p, q) => board.state[q[1]][q[2]] = Final

(* a completed call left a Deleted cell with four Final neighbours while   *)
(* other cells are still Unknown                                            *)
C14_Witness ==
    /\ last.clean /\ last.op \in {"finalizeCell", "deleteCell"}
    /\ board.size = 3 /\ board.state[1][1] = Deleted
    /\ CellsIn(board, Unknown) # {}

C17_PropagationIdempotent ==
    finalizeUniqueCells(finalizeUniqueCells(board)) = finalizeUniqueCells(board)

(* a finalizeUniqueCells call finalized some cells of a board on which     *)
(* cells were Deleted before, and left others Unknown                       *)
C17_Witness ==
    /\ last.clean /\ last.op = "finalizeUniqueCells"
    /\ CellsIn(board, Final) # {} /\ CellsIn(board, Unknown) # {}
    /\ CellsIn(board, Deleted) # {}

(* finalizeCell and deleteCell reject every cell that is not Unknown with  *)
(* MultipleStateChange and leave the Table as it is                         *)
C18_Rejects ==
    \A p \in Cells(board.size) :
        board.state[p[1]][p[2]] # Unknown =>
            /\ finalizeCell(board, p[1], p[2])
                   = Throw(board, MultipleStateChangeException)
            /\ deleteCell(board, p[1], p[2])
                   = Throw(board, MultipleStateChangeException)

(* no call, completed or not, changes a cell that is Final or Deleted *)
C18_MonotoneStep ==
    \A p \in Cells(board.size) :
        board.state[p[1]][p[2]] # Unknown =>
            board'.state[p[1]][p[2]] = board.state[p[1]][p[2]]

(* C18: over any sequence of finalizeUniqueCells, finalizeCell and         *)
(* deleteCell calls a Final cell stays Final and a Deleted cell stays      *)
(* Deleted; finalizeCell or deleteCell on a cell that is not Unknown fails *)
(* with MultipleStateChange and changes no cell state, count or set.       *)
C18_Monotone == []C18_Rejects /\ [][C18_MonotoneStep]_vars

(* a call on a cell that was not Unknown was rejected on a board with      *)
(* Final and Deleted cells                                                  *)
C18_Witness ==
    /\ last.exc = MultipleStateChangeException
    /\ CellsIn(board, Final) # {} /\ CellsIn(board, Deleted) # {}

(* the score of the claim: an integer, -1 for a pair of zero counts *)
Score(t, r, c, v) == t.rowCounts[r][v] + t.columnCounts[c][v] - 1

Scores(t) ==
    {Score(t, p[1], p[2], v) : p \in CellsIn(t, Unknown), v \in 1 .. t.size}

MaxScore(t) == CHOOSE m \in Scores(t) : \A x \in Scores(t) : x <= m

BestCells(t) ==
    {p \in CellsIn(t, Unknown) :
        \E v \in 1 .. t.size : Score(t, p[1], p[2], v) = MaxScore(t)}

FirstRowMajor(t, S) ==
    CHOOSE p \in S : \A q \in S : p[1] * t.size + p[2] <= q[1] * t.size + q[2]

(* C19: on a board with Unknown cells getFinalizeCandidatePos returns the  *)
(* first Unknown cell in row-major order whose score, the integer          *)
(* rowCounts[r][v] + columnCounts[c][v] - 1 for some v in 1..N, is the     *)
(* maximum over all Unknown cells and values.                               *)
C19_CandidateIsIntegerMaximum ==
    (last.clean /\ CellsIn(board, Unknown) # {}) =>
        getFinalizeCandidatePos(board) = FirstRowMajor(board, BestCells(board))

=============================================================================
